---- MODULE Spec2Model ----
(***************************************************************************)
(* Model of the PT2258 six-channel volume controller driver (PT2258.py).   *)
(*                                                                         *)
(* One driver instance is modelled: its private fields, the record of its  *)
(* construction and the record of the last public call (and, in SpecSeq,   *)
(* of the call before it).  Every call record carries the bus trace of    *)
(* the call: the sequence of utime / I2C primitives the call invoked, in   *)
(* program order, each with the outcome the bus produced.                  *)
(***************************************************************************)
EXTENDS Integers, Sequences, FiniteSets, TLC

---------------------------------------------------------------------------
\* Bounds of the model.

\* I2C.writeto returns the number of ACKs received: 0..MaxAck.
MaxAck == 1
\* Arguments are drawn from the valid range widened by Margin on both sides.
Margin == 1

---------------------------------------------------------------------------
\* Class constants (PT2258.py, lines 10-29).

CLEAR_REGISTER == 192
MASTER_VOLUME_10DB == 208
MASTER_VOLUME_1DB == 224
MUTE_REGISTER == 248

C1_10DB == 128
C2_10DB == 64
\* Mutant of C3_10DB: the line of channel 2 copied without its value changed.
C3_10DB_typo == C2_10DB
C3_10DB == 0
C4_10DB == 32
C5_10DB == 96
C6_10DB == 160

C1_1DB == 144
C2_1DB == 80
C3_1DB == 16
C4_1DB == 48
C5_1DB == 112
C6_1DB == 176

\* The default of the address parameter of __init__ (0x88).
DEFAULT_ADDRESS == 136

\* The addresses __init__ accepts.
ValidAddresses == {140, 136, 132, 128}

\* Mutant of CHANNEL_REGISTERS: the rows of channels 3 and 4 exchanged.
CHANNEL_REGISTERS_swapped ==
    << <<C1_10DB, C1_1DB>>, <<C2_10DB, C2_1DB>>, <<C4_10DB, C4_1DB>>,
       <<C3_10DB, C3_1DB>>, <<C5_10DB, C5_1DB>>, <<C6_10DB, C6_1DB>> >>

\* self.__CHANNEL_REGISTERS; Python index i is element i + 1 here.
CHANNEL_REGISTERS ==
    << <<C1_10DB, C1_1DB>>, <<C2_10DB, C2_1DB>>, <<C3_10DB, C3_1DB>>,
       <<C4_10DB, C4_1DB>>, <<C5_10DB, C5_1DB>>, <<C6_10DB, C6_1DB>> >>

\* The power-on delay of __initialize_pt2258, in milliseconds.
POWER_ON_DELAY_MS == 300

\* errno of a not-acknowledged transfer, tested by __write_pt2258.
EIO == 5

---------------------------------------------------------------------------
\* Values that stand for "nothing".

NoAddr == -1
NoRet == -1
NoArg == -1

---------------------------------------------------------------------------
\* Python integer operators.

\* a | b on non-negative integers.
RECURSIVE BitOr(_, _)
BitOr(a, b) ==
    IF a = 0 THEN b
    ELSE IF b = 0 THEN a
    ELSE (IF a % 2 = 1 \/ b % 2 = 1 THEN 1 ELSE 0)
         + 2 * BitOr(a \div 2, b \div 2)

\* Mutant of ShiftRight1: the raw 8-bit address is used as it is.
ShiftRight1_noshift(a) == a

\* a >> 1
ShiftRight1(a) == a \div 2

\* Mutant of DivMod: quotient and remainder exchanged.
DivMod_swapped(a, b) == <<a % b, a \div b>>

\* divmod(a, b) for b > 0: <<quotient, remainder>>.
DivMod(a, b) == <<a \div b, a % b>>

\* Truth value of an int in an if statement.
Truthy(n) == n # 0

---------------------------------------------------------------------------
\* The bus: outcomes of the primitives the driver calls.

\* I2C.writeto either returns the number of ACKs received or raises
\* OSError(errno) (EIO, or another errno such as ETIMEDOUT).
BusResults ==
    [kind : {"ack"}, val : 0..MaxAck] \cup [kind : {"OSError"}, val : {EIO, 110}]

\* I2C.scan returns the list of 7-bit addresses that respond.
ScanResults == SUBSET {ShiftRight1(a) : a \in ValidAddresses}

SleepEvent(ms) ==
    [op |-> "sleep_ms", addr |-> NoAddr, arg |-> ms, kind |-> "none", val |-> 0]

ScanEvent(addr7, found) ==
    [op |-> "scan", addr |-> addr7, arg |-> NoArg,
     kind |-> IF found THEN "found" ELSE "absent", val |-> 0]

WriteEvent(addr7, byte, r) ==
    [op |-> "writeto", addr |-> addr7, arg |-> byte, kind |-> r.kind, val |-> r.val]

---------------------------------------------------------------------------
\* Mutant of write_pt2258: an OSError is caught and reported as no ACK.
write_pt2258_swallow(addr7, write_data, r) ==
    [event  |-> WriteEvent(addr7, write_data, r),
     raised |-> FALSE,
     msg    |-> "",
     ack    |-> IF r.kind = "ack" THEN r.val ELSE 0]

\* __write_pt2258: one writeto of one byte; OSError becomes RuntimeError.

write_pt2258(addr7, write_data, r) ==
    [event  |-> WriteEvent(addr7, write_data, r),
     raised |-> r.kind = "OSError",
     msg    |-> IF r.kind = "OSError"
                THEN (IF r.val = EIO THEN "not acknowledged" ELSE "i/o error")
                ELSE "",
     ack    |-> IF r.kind = "ack" THEN r.val ELSE NoRet]

---------------------------------------------------------------------------
\* Results of the handlers.  A handler result names how the call ended
\* ("return" or the exception raised), the value returned, the bus trace of
\* the call and the value of self.__last_ack when the call ends.

Result(outcome, msg, ret, trace, la) ==
    [outcome |-> outcome, msg |-> msg, ret |-> ret, trace |-> trace, last_ack |-> la]

\* Mutant of initialize_pt2258: the presence scan precedes the delay.
initialize_pt2258_scan_first(addr7, la, scan, r) ==
    LET sleep == SleepEvent(POWER_ON_DELAY_MS)
        found == addr7 \in scan
        w     == write_pt2258(addr7, CLEAR_REGISTER, r)
    IN  IF ~found
        THEN Result("OSError", "not found", NoRet, <<ScanEvent(addr7, found)>>, la)
        ELSE IF w.raised
        THEN Result("RuntimeError", w.msg, NoRet,
                    <<ScanEvent(addr7, found), sleep, w.event>>, la)
        ELSE Result("return", "", NoRet,
                    <<ScanEvent(addr7, found), sleep, w.event>>, la)

\* Mutant of initialize_pt2258: the result of the presence scan is ignored.
initialize_pt2258_no_check(addr7, la, scan, r) ==
    LET sleep == SleepEvent(POWER_ON_DELAY_MS)
        found == addr7 \in scan
        w     == write_pt2258(addr7, CLEAR_REGISTER, r)
    IN  IF w.raised
        THEN Result("RuntimeError", w.msg, NoRet,
                    <<sleep, ScanEvent(addr7, found), w.event>>, la)
        ELSE Result("return", "", NoRet,
                    <<sleep, ScanEvent(addr7, found), w.event>>, la)

\* __initialize_pt2258: delay, presence scan, clear-register write.
\* The value __write_pt2258 returns is discarded.
initialize_pt2258(addr7, la, scan, r) ==
    LET sleep == SleepEvent(POWER_ON_DELAY_MS)
        found == addr7 \in scan
        w     == write_pt2258(addr7, CLEAR_REGISTER, r)
    IN  IF ~found
        THEN Result("OSError", "not found", NoRet,
                    <<sleep, ScanEvent(addr7, found)>>, la)
        ELSE IF w.raised
        THEN Result("RuntimeError", w.msg, NoRet,
                    <<sleep, ScanEvent(addr7, found), w.event>>, la)
        ELSE Result("return", "", NoRet,
                    <<sleep, ScanEvent(addr7, found), w.event>>, la)

\* Mutant of init: the address is not validated.
init_no_address_check(port, address, scan, r) ==
    IF port = "None"
    THEN [outcome |-> "ValueError", msg |-> "port", trace |-> <<>>,
          I2C |-> "None", PT2258_ADDR |-> NoAddr, last_ack |-> 0]
    ELSE LET i == initialize_pt2258(ShiftRight1(address), 0, scan, r)
         IN  [outcome |-> i.outcome, msg |-> i.msg, trace |-> i.trace,
              I2C |-> port, PT2258_ADDR |-> ShiftRight1(address),
              last_ack |-> i.last_ack]

\* __init__: validate, store the fields, run __initialize_pt2258.
\* The result carries the fields of the instance as the constructor leaves
\* them; no instance exists for the caller unless the outcome is "return".
init(port, address, scan, r) ==
    IF port = "None"
    THEN [outcome |-> "ValueError", msg |-> "port", trace |-> <<>>,
          I2C |-> "None", PT2258_ADDR |-> NoAddr, last_ack |-> 0]
    ELSE IF address \notin ValidAddresses
    THEN [outcome |-> "ValueError", msg |-> "address", trace |-> <<>>,
          I2C |-> "None", PT2258_ADDR |-> NoAddr, last_ack |-> 0]
    ELSE LET i == initialize_pt2258(ShiftRight1(address), 0, scan, r)
         IN  [outcome |-> i.outcome, msg |-> i.msg, trace |-> i.trace,
              I2C |-> port, PT2258_ADDR |-> ShiftRight1(address),
              last_ack |-> i.last_ack]

\* Mutant of master_volume: the 1dB write does not depend on the 10dB ack.
master_volume_always_fine(addr7, la, volume, r1, r2) ==
    IF ~(0 <= volume /\ volume <= 79)
    THEN Result("ValueError", "volume", NoRet, <<>>, la)
    ELSE LET att == DivMod(79 - volume, 10)
             w1  == write_pt2258(addr7, BitOr(MASTER_VOLUME_10DB, att[1]), r1)
             w2  == write_pt2258(addr7, BitOr(MASTER_VOLUME_1DB, att[2]), r2)
         IN  IF w1.raised
             THEN Result("RuntimeError", w1.msg, NoRet, <<w1.event>>, la)
             ELSE IF w2.raised
             THEN Result("RuntimeError", w2.msg, NoRet, <<w1.event, w2.event>>, w1.ack)
             ELSE Result("return", "", w2.ack, <<w1.event, w2.event>>, w2.ack)

\* Mutant of master_volume: the 10dB and 1dB registers exchanged.
master_volume_swapped_prefix(addr7, la, volume, r1, r2) ==
    IF ~(0 <= volume /\ volume <= 79)
    THEN Result("ValueError", "volume", NoRet, <<>>, la)
    ELSE LET att == DivMod(79 - volume, 10)
             w1  == write_pt2258(addr7, BitOr(MASTER_VOLUME_1DB, att[1]), r1)
             w2  == write_pt2258(addr7, BitOr(MASTER_VOLUME_10DB, att[2]), r2)
         IN  IF w1.raised
             THEN Result("RuntimeError", w1.msg, NoRet, <<w1.event>>, la)
             ELSE IF Truthy(w1.ack)
             THEN IF w2.raised
                  THEN Result("RuntimeError", w2.msg, NoRet,
                              <<w1.event, w2.event>>, w1.ack)
                  ELSE Result("return", "", w2.ack, <<w1.event, w2.event>>, w2.ack)
             ELSE Result("return", "", w1.ack, <<w1.event>>, w1.ack)

\* Mutant of master_volume: only the upper bound of the volume is checked.
master_volume_no_lower_bound(addr7, la, volume, r1, r2) ==
    IF ~(volume <= 79)
    THEN Result("ValueError", "volume", NoRet, <<>>, la)
    ELSE LET att == DivMod(79 - volume, 10)
             w1  == write_pt2258(addr7, BitOr(MASTER_VOLUME_10DB, att[1]), r1)
             w2  == write_pt2258(addr7, BitOr(MASTER_VOLUME_1DB, att[2]), r2)
         IN  IF w1.raised
             THEN Result("RuntimeError", w1.msg, NoRet, <<w1.event>>, la)
             ELSE IF Truthy(w1.ack)
             THEN IF w2.raised
                  THEN Result("RuntimeError", w2.msg, NoRet,
                              <<w1.event, w2.event>>, w1.ack)
                  ELSE Result("return", "", w2.ack, <<w1.event, w2.event>>, w2.ack)
             ELSE Result("return", "", w1.ack, <<w1.event>>, w1.ack)

\* Mutant of master_volume: the 1dB acknowledgment is stored but the 10dB
\* acknowledgment is returned.
master_volume_stale_return(addr7, la, volume, r1, r2) ==
    IF ~(0 <= volume /\ volume <= 79)
    THEN Result("ValueError", "volume", NoRet, <<>>, la)
    ELSE LET att == DivMod(79 - volume, 10)
             w1  == write_pt2258(addr7, BitOr(MASTER_VOLUME_10DB, att[1]), r1)
             w2  == write_pt2258(addr7, BitOr(MASTER_VOLUME_1DB, att[2]), r2)
         IN  IF w1.raised
             THEN Result("RuntimeError", w1.msg, NoRet, <<w1.event>>, la)
             ELSE IF Truthy(w1.ack)
             THEN IF w2.raised
                  THEN Result("RuntimeError", w2.msg, NoRet,
                              <<w1.event, w2.event>>, w1.ack)
                  ELSE Result("return", "", w1.ack, <<w1.event, w2.event>>, w2.ack)
             ELSE Result("return", "", w1.ack, <<w1.event>>, w1.ack)

\* Mutant of master_volume: a 10dB write that is not acknowledged is
\* written once more.
master_volume_retry(addr7, la, volume, r1, r2) ==
    IF ~(0 <= volume /\ volume <= 79)
    THEN Result("ValueError", "volume", NoRet, <<>>, la)
    ELSE LET att == DivMod(79 - volume, 10)
             w1  == write_pt2258(addr7, BitOr(MASTER_VOLUME_10DB, att[1]), r1)
             w1b == write_pt2258(addr7, BitOr(MASTER_VOLUME_10DB, att[1]), r2)
             w2  == write_pt2258(addr7, BitOr(MASTER_VOLUME_1DB, att[2]), r2)
         IN  IF w1.raised
             THEN Result("RuntimeError", w1.msg, NoRet, <<w1.event>>, la)
             ELSE IF Truthy(w1.ack)
             THEN IF w2.raised
                  THEN Result("RuntimeError", w2.msg, NoRet,
                              <<w1.event, w2.event>>, w1.ack)
                  ELSE Result("return", "", w2.ack, <<w1.event, w2.event>>, w2.ack)
             ELSE IF w1b.raised
             THEN Result("RuntimeError", w1b.msg, NoRet, <<w1.event, w1b.event>>, w1.ack)
             ELSE Result("return", "", w1b.ack, <<w1.event, w1b.event>>, w1b.ack)

\* master_volume
master_volume(addr7, la, volume, r1, r2) ==
    IF ~(0 <= volume /\ volume <= 79)
    THEN Result("ValueError", "volume", NoRet, <<>>, la)
    ELSE LET att == DivMod(79 - volume, 10)
             w1  == write_pt2258(addr7, BitOr(MASTER_VOLUME_10DB, att[1]), r1)
             w2  == write_pt2258(addr7, BitOr(MASTER_VOLUME_1DB, att[2]), r2)
         IN  IF w1.raised
             THEN Result("RuntimeError", w1.msg, NoRet, <<w1.event>>, la)
             ELSE IF Truthy(w1.ack)
             THEN IF w2.raised
                  THEN Result("RuntimeError", w2.msg, NoRet,
                              <<w1.event, w2.event>>, w1.ack)
                  ELSE Result("return", "", w2.ack, <<w1.event, w2.event>>, w2.ack)
             ELSE Result("return", "", w1.ack, <<w1.event>>, w1.ack)

\* Indexing a Python tuple of length n: indices -n..n-1 are legal, a negative
\* index counts from the end; any other index raises IndexError.
TupleIndexOK(t, i) == 0 - Len(t) <= i /\ i < Len(t)
TupleGet(t, i) == t[(i % Len(t)) + 1]

\* A handler result together with the indices it used on
\* self.__CHANNEL_REGISTERS, in order.
WithLookups(res, lookups) == res @@ [lookups |-> lookups]

\* Mutant of channel_volume: the channel index is not validated.
channel_volume_no_channel_check(addr7, la, channel, volume, r1, r2) ==
    IF ~(0 <= volume /\ volume <= 79)
    THEN WithLookups(Result("ValueError", "volume", NoRet, <<>>, la), <<>>)
    ELSE IF ~TupleIndexOK(CHANNEL_REGISTERS, channel)
    THEN WithLookups(Result("IndexError", "channel", NoRet, <<>>, la), <<channel>>)
    ELSE LET channel_10db == TupleGet(CHANNEL_REGISTERS, channel)[1]
             channel_1db  == TupleGet(CHANNEL_REGISTERS, channel)[2]
             att == DivMod(79 - volume, 10)
             w1  == write_pt2258(addr7, BitOr(channel_10db, att[1]), r1)
             w2  == write_pt2258(addr7, BitOr(channel_1db, att[2]), r2)
             res == IF w1.raised
                    THEN Result("RuntimeError", w1.msg, NoRet, <<w1.event>>, la)
                    ELSE IF Truthy(w1.ack)
                    THEN IF w2.raised
                         THEN Result("RuntimeError", w2.msg, NoRet,
                                     <<w1.event, w2.event>>, w1.ack)
                         ELSE Result("return", "", w2.ack, <<w1.event, w2.event>>, w2.ack)
                    ELSE Result("return", "", w1.ack, <<w1.event>>, w1.ack)
         IN  WithLookups(res, <<channel>>)

\* channel_volume
channel_volume(addr7, la, channel, volume, r1, r2) ==
    IF ~(0 <= volume /\ volume <= 79)
    THEN WithLookups(Result("ValueError", "volume", NoRet, <<>>, la), <<>>)
    ELSE IF ~(0 <= channel /\ channel <= 5)
    THEN WithLookups(Result("ValueError", "channel", NoRet, <<>>, la), <<>>)
    ELSE LET channel_10db == TupleGet(CHANNEL_REGISTERS, channel)[1]
             channel_1db  == TupleGet(CHANNEL_REGISTERS, channel)[2]
             att == DivMod(79 - volume, 10)
             w1  == write_pt2258(addr7, BitOr(channel_10db, att[1]), r1)
             w2  == write_pt2258(addr7, BitOr(channel_1db, att[2]), r2)
             res == IF w1.raised
                    THEN Result("RuntimeError", w1.msg, NoRet, <<w1.event>>, la)
                    ELSE IF Truthy(w1.ack)
                    THEN IF w2.raised
                         THEN Result("RuntimeError", w2.msg, NoRet,
                                     <<w1.event, w2.event>>, w1.ack)
                         ELSE Result("return", "", w2.ack, <<w1.event, w2.event>>, w2.ack)
                    ELSE Result("return", "", w1.ack, <<w1.event>>, w1.ack)
         IN  WithLookups(res, <<channel>>)

\* Arguments of mute: a Python value with its type; bool is 0 or 1 as an int;
\* None carries no number (val is never read for it).
StatusValues ==
    [type : {"bool", "int"}, val : {0, 1}] \cup {[type |-> "NoneType", val |-> 0]}

\* Mutant of mute: isinstance(status, int) instead of isinstance(status, bool);
\* a bool is an int in Python, so both pass.
mute_accepts_int(addr7, la, status, r) ==
    IF status.type \notin {"bool", "int"}
    THEN Result("ValueError", "status", NoRet, <<>>, la)
    ELSE LET w == write_pt2258(addr7, BitOr(MUTE_REGISTER, status.val), r)
         IN  IF w.raised
             THEN Result("RuntimeError", w.msg, NoRet, <<w.event>>, la)
             ELSE Result("return", "", w.ack, <<w.event>>, w.ack)

\* Mutant of mute: the mute bit is inverted.
mute_inverted(addr7, la, status, r) ==
    IF status.type # "bool"
    THEN Result("ValueError", "status", NoRet, <<>>, la)
    ELSE LET w == write_pt2258(addr7, BitOr(MUTE_REGISTER, 1 - status.val), r)
         IN  IF w.raised
             THEN Result("RuntimeError", w.msg, NoRet, <<w.event>>, la)
             ELSE Result("return", "", w.ack, <<w.event>>, w.ack)

\* Mutant of mute: a rejected call clears self.__last_ack before raising.
mute_reset_on_reject(addr7, la, status, r) ==
    IF status.type # "bool"
    THEN Result("ValueError", "status", NoRet, <<>>, 0)
    ELSE LET w == write_pt2258(addr7, BitOr(MUTE_REGISTER, status.val), r)
         IN  IF w.raised
             THEN Result("RuntimeError", w.msg, NoRet, <<w.event>>, la)
             ELSE Result("return", "", w.ack, <<w.event>>, w.ack)

\* mute
mute(addr7, la, status, r) ==
    IF status.type # "bool"
    THEN Result("ValueError", "status", NoRet, <<>>, la)
    ELSE LET w == write_pt2258(addr7, BitOr(MUTE_REGISTER, status.val), r)
         IN  IF w.raised
             THEN Result("RuntimeError", w.msg, NoRet, <<w.event>>, la)
             ELSE Result("return", "", w.ack, <<w.event>>, w.ack)

---------------------------------------------------------------------------
\* Inputs.

Ports == {"i2c", "None"}
\* The four legal raw addresses and one illegal one (0x90).
Addresses == ValidAddresses \cup {144}
Volumes == (0 - Margin)..(79 + Margin)
Channels == (0 - Margin)..(5 + Margin)
\* The volumes of SpecSeq: the ends of the range and one value outside it.
SeqVolumes == {0 - Margin, 0, 79}

\* The answer recorded for a write the call never asked for.
NoAnswer == [kind |-> "ack", val |-> 0]

---------------------------------------------------------------------------
\* State.

VARIABLES
    state,        \* "Uninitialized", "Ready" or "Faulted"
    I2C,          \* self.__I2C
    PT2258_ADDR,  \* self.__PT2258_ADDR
    last_ack,     \* self.__last_ack
    ctor,         \* the construction: arguments, outcome, bus trace
    call,         \* the public call that just ended: name, arguments, outcome,
                  \* bus trace; NoCall once the caller has gone on
    prev          \* summary of the public call before it (SpecSeq only)

vars == <<state, I2C, PT2258_ADDR, last_ack, ctor, call, prev>>

NoCall ==
    [name |-> "none", args |-> <<>>, outcome |-> "none", msg |-> "",
     ret |-> NoRet, trace |-> <<>>, lookups |-> <<>>]

\* The record of a call; only channel_volume uses the channel table.
CallRecord(name, args, res) ==
    [name |-> name, args |-> args, outcome |-> res.outcome, msg |-> res.msg,
     ret |-> res.ret, trace |-> res.trace,
     lookups |-> IF "lookups" \in DOMAIN res THEN res.lookups ELSE <<>>]

\* The writeto events of a bus trace, in order, and the bytes they carry.
Writes(trace) == SelectSeq(trace, LAMBDA e : e.op = "writeto")
Bytes(trace) == [i \in 1..Len(Writes(trace)) |-> Writes(trace)[i].arg]

\* What SpecSeq keeps of the call before the last one.
Summary(c) ==
    [name |-> c.name, args |-> c.args, outcome |-> c.outcome, ret |-> c.ret,
     bytes |-> Bytes(c.trace)]

NoSummary == Summary(NoCall)

Init ==
    /\ state = "Uninitialized"
    /\ I2C = "None"
    /\ PT2258_ADDR = NoAddr
    /\ last_ack = 0
    /\ ctor = NoCall
    /\ call = NoCall
    /\ prev = NoSummary

\* PT2258(port, address)
New ==
    /\ state = "Uninitialized"
    /\ \E port \in Ports, address \in Addresses, scan \in ScanResults, r \in BusResults :
          LET c == init(port, address, scan, r)
          IN  /\ state' = IF c.outcome = "return" THEN "Ready" ELSE "Faulted"
              /\ I2C' = c.I2C
              /\ PT2258_ADDR' = c.PT2258_ADDR
              /\ last_ack' = c.last_ack
              /\ ctor' = [name |-> "init", args |-> <<port, address>>,
                          outcome |-> c.outcome, msg |-> c.msg, ret |-> NoRet,
                          trace |-> c.trace, lookups |-> <<>>]
    /\ UNCHANGED <<call, prev>>

\* Mutant of Finish: a communication error marks the instance Faulted.
Finish_faulting(name, args, res, answers) ==
    /\ \A i \in 1..Len(answers) : i > Len(res.trace) => answers[i] = NoAnswer
    /\ call' = CallRecord(name, args, res)
    /\ last_ack' = res.last_ack
    /\ state' = IF res.outcome = "RuntimeError" THEN "Faulted" ELSE state
    /\ UNCHANGED <<I2C, PT2258_ADDR, ctor, prev>>

\* A public call on a Ready instance ends with result res; answers is the
\* sequence of answers the bus had ready, of which the call consumed the
\* first Len(res.trace).
Finish(name, args, res, answers) ==
    /\ \A i \in 1..Len(answers) : i > Len(res.trace) => answers[i] = NoAnswer
    /\ call' = CallRecord(name, args, res)
    /\ last_ack' = res.last_ack
    /\ UNCHANGED <<state, I2C, PT2258_ADDR, ctor, prev>>

\* The caller can call: it holds an instance and is not looking at a result.
CanCall == state = "Ready" /\ call = NoCall

MasterVolumeOp(V) ==
    /\ CanCall
    /\ \E volume \in V, r1 \in BusResults, r2 \in BusResults :
          Finish("master_volume", <<volume>>,
                 master_volume(PT2258_ADDR, last_ack, volume, r1, r2), <<r1, r2>>)

ChannelVolumeOp(V) ==
    /\ CanCall
    /\ \E channel \in Channels, volume \in V, r1 \in BusResults, r2 \in BusResults :
          Finish("channel_volume", <<channel, volume>>,
                 channel_volume(PT2258_ADDR, last_ack, channel, volume, r1, r2),
                 <<r1, r2>>)

MuteOp ==
    /\ CanCall
    /\ \E status \in StatusValues, r \in BusResults :
          Finish("mute", <<status>>, mute(PT2258_ADDR, last_ack, status, r), <<r>>)

\* The caller takes the result (or catches the exception) and goes on.
ResumeOp(track) ==
    /\ state = "Ready"
    /\ call # NoCall
    /\ call' = NoCall
    /\ prev' = IF track THEN Summary(call) ELSE prev
    /\ UNCHANGED <<state, I2C, PT2258_ADDR, last_ack, ctor>>

MasterVolume == MasterVolumeOp(Volumes)
ChannelVolume == ChannelVolumeOp(Volumes)
Mute == MuteOp
Resume == ResumeOp(FALSE)

Next == New \/ MasterVolume \/ ChannelVolume \/ Mute \/ Resume

Spec == Init /\ [][Next]_vars

\* The same driver called with the volumes of SeqVolumes, the call before
\* the last one kept.
SeqMasterVolume == MasterVolumeOp(SeqVolumes)
SeqChannelVolume == ChannelVolumeOp(SeqVolumes)
SeqResume == ResumeOp(TRUE)

NextSeq == New \/ SeqMasterVolume \/ SeqChannelVolume \/ Mute \/ SeqResume

SpecSeq == Init /\ [][NextSeq]_vars

---------------------------------------------------------------------------
\* Reading a bus trace back: decoding of the instruction bytes (data sheet
\* format: the high nibble selects the register, the low nibble is the value).

HighNibble(byte) == (byte \div 16) * 16
LowNibble(byte) == byte % 16

CoarsePrefixes == {208, 128, 64, 0, 32, 96, 160}
FinePrefixes == {224, 144, 80, 16, 48, 112, 176}

IsCoarse(e) == e.op = "writeto" /\ HighNibble(e.arg) \in CoarsePrefixes
IsFine(e) == e.op = "writeto" /\ HighNibble(e.arg) \in FinePrefixes
Acked(e) == e.kind = "ack" /\ e.val # 0
FailedAck(e) == e.kind = "ack" /\ e.val = 0

\* The last call is a volume call whose arguments passed validation.
VolumeCall ==
    /\ call.name \in {"master_volume", "channel_volume"}
    /\ call.outcome # "ValueError"

\* The construction got past the validation of its parameters.
ValidConstruction == ctor.name = "init" /\ ctor.outcome # "ValueError"

---------------------------------------------------------------------------
\* C1: in a volume call with valid arguments the first bus access is the
\* write of the coarse (10 dB) instruction; a second access exists only when
\* the coarse write returned a success acknowledgment, and it is the write of
\* the fine (1 dB) instruction; when the coarse write returned a failing
\* acknowledgment there is no second write and the call returns the coarse
\* write's result.
C1_CoarseBeforeFine ==
    VolumeCall =>
        /\ Len(call.trace) \in {1, 2}
        /\ IsCoarse(call.trace[1])
        /\ Len(call.trace) = 2 => Acked(call.trace[1]) /\ IsFine(call.trace[2])
        /\ FailedAck(call.trace[1]) =>
              /\ Len(call.trace) = 1
              /\ call.outcome = "return"
              /\ call.ret = call.trace[1].val

C1_Witness ==
    /\ VolumeCall
    /\ call.name = "master_volume"
    /\ Len(call.trace) = 1
    /\ FailedAck(call.trace[1])
    /\ call.ret = 0

\* C2: a construction with valid parameters first sleeps 300 ms, then scans,
\* then (if it gets that far) writes 0xC0, and does nothing else; and whenever
\* a public call has written to the bus, the construction's only write, 0xC0,
\* came before it.
C2_InitOrder ==
    /\ ValidConstruction =>
          /\ Len(ctor.trace) \in {2, 3}
          /\ ctor.trace[1].op = "sleep_ms" /\ ctor.trace[1].arg = 300
          /\ ctor.trace[2].op = "scan"
          /\ Len(ctor.trace) = 3 =>
                ctor.trace[3].op = "writeto" /\ ctor.trace[3].arg = 192
    /\ call.name # "none" => ValidConstruction /\ Bytes(ctor.trace) = <<192>>

C2_Witness ==
    /\ ValidConstruction
    /\ Len(ctor.trace) = 3
    /\ call.name = "mute"
    /\ Len(call.trace) = 1

\* C3: if the clear-register write of the initialization fails, by a bus
\* error or by a non-success acknowledgment, the instance is never Ready.
C3_ClearFailureNotReady ==
    (/\ ValidConstruction
     /\ Len(ctor.trace) = 3
     /\ ctor.trace[3].kind = "OSError" \/ FailedAck(ctor.trace[3]))
    => state # "Ready"

\* C4: if the presence scan does not report the 7-bit address, construction
\* fails with OSError (device not found), no byte is written, and the
\* instance is Faulted, a state no operation leaves.
C4_NotFound ==
    (ValidConstruction /\ ctor.trace[2].kind = "absent") =>
        /\ ctor.outcome = "OSError"
        /\ Bytes(ctor.trace) = <<>>
        /\ call = NoCall
        /\ state = "Faulted"
        /\ ~ENABLED Next

C4_Witness ==
    /\ ValidConstruction
    /\ ctor.trace[2].kind = "absent"
    /\ ctor.args[2] = 136

\* C5: construction without a bus handle, or with an address outside
\* {0x8C, 0x88, 0x84, 0x80}, fails with ValueError (configuration error) and
\* with an empty bus trace: no delay, no scan, no write.
C5_ConfigurationError ==
    (ctor.name = "init" /\ (ctor.args[1] = "None" \/ ctor.args[2] \notin {140, 136, 132, 128}))
    => /\ ctor.outcome = "ValueError"
       /\ ctor.trace = <<>>
       /\ state = "Faulted"

C5_Witness ==
    /\ ctor.name = "init"
    /\ ctor.args[1] = "i2c"
    /\ ctor.args[2] = 144
    /\ ctor.outcome = "ValueError"

\* C6: for every volume in 0..79 the payloads master_volume and
\* channel_volume write are the coarse and fine parts of 79 - volume:
\* coarse in 0..7, fine in 0..9, coarse * 10 + fine = 79 - volume
\* (0 gives 7,9; 79 gives 0,0; 40 gives 3,9).
C6_Split ==
    VolumeCall =>
        LET volume == call.args[Len(call.args)]
            coarse == LowNibble(call.trace[1].arg)
        IN  /\ coarse \in 0..7
            /\ coarse * 10 <= 79 - volume
            /\ 79 - volume < coarse * 10 + 10
            /\ volume = 0 => coarse = 7
            /\ volume = 79 => coarse = 0
            /\ volume = 40 => coarse = 3
            /\ Len(call.trace) = 2 =>
                  LET fine == LowNibble(call.trace[2].arg)
                  IN  /\ fine \in 0..9
                      /\ coarse * 10 + fine = 79 - volume
                      /\ volume = 0 => fine = 9
                      /\ volume = 79 => fine = 0
                      /\ volume = 40 => fine = 9

C6_Witness ==
    /\ VolumeCall
    /\ call.name = "channel_volume"
    /\ call.args[2] = 40
    /\ Len(call.trace) = 2
    /\ LowNibble(call.trace[1].arg) = 3
    /\ LowNibble(call.trace[2].arg) = 9

\* The prefixes of the claim, by channel index 0..5 (element index + 1).
C7_Prefixes ==
    << <<128, 144>>, <<64, 80>>, <<0, 16>>, <<32, 48>>, <<96, 112>>, <<160, 176>> >>

\* The two last calls are channel_volume(channel, 0) then
\* channel_volume(channel, 79), every write acknowledged.
C7_RoundTrip(channel) ==
    /\ prev.name = "channel_volume"
    /\ prev.args = <<channel, 0>>
    /\ prev.outcome = "return" /\ prev.ret # 0
    /\ call.name = "channel_volume"
    /\ call.args = <<channel, 79>>
    /\ call.outcome = "return" /\ call.ret # 0

\* C7: channel_volume(channel, 0) followed by channel_volume(channel, 79),
\* every write acknowledged, writes exactly the four bytes coarse|7, fine|9,
\* coarse|0, fine|0 with the channel's prefixes.
C7_ChannelRoundTrip ==
    \A channel \in 0..5 :
        C7_RoundTrip(channel) =>
            /\ Len(call.trace) = 2
            /\ prev.bytes \o Bytes(call.trace) =
                  << C7_Prefixes[channel + 1][1] + 7, C7_Prefixes[channel + 1][2] + 9,
                     C7_Prefixes[channel + 1][1], C7_Prefixes[channel + 1][2] >>

C7_Witness ==
    /\ C7_RoundTrip(2)
    /\ prev.bytes = <<7, 25>>
    /\ Bytes(call.trace) = <<0, 16>>

\* C8: master_volume(volume), volume in 0..79, every write acknowledged,
\* performs exactly two bus accesses: the write of 0xD0 | coarse, then the
\* write of 0xE0 | fine, with coarse, fine = divmod(79 - volume, 10).
C8_MasterBytes ==
    (/\ call.name = "master_volume"
     /\ call.args[1] \in 0..79
     /\ call.outcome = "return" /\ call.ret # 0)
    => /\ Len(call.trace) = 2
       /\ call.trace[1].op = "writeto" /\ call.trace[2].op = "writeto"
       /\ call.trace[1].arg = 208 + ((79 - call.args[1]) \div 10)
       /\ call.trace[2].arg = 224 + ((79 - call.args[1]) % 10)

C8_Witness ==
    /\ call.name = "master_volume"
    /\ call.args = <<0>>
    /\ call.outcome = "return" /\ call.ret # 0
    /\ Bytes(call.trace) = <<215, 233>>

\* A mute call with a boolean argument wrote exactly the byte 0xF8 | bit.
C9_MuteBytes(name, args, bytes) ==
    (name = "mute" /\ args[1].type = "bool") => bytes = <<248 + args[1].val>>

\* C9: mute with a boolean writes exactly one byte, 0xF8 | bit, whatever the
\* bus answers and whatever call came before; so do two calls in succession.
C9_MuteOneWrite ==
    /\ C9_MuteBytes(call.name, call.args, Bytes(call.trace))
    /\ call.name = "mute" /\ call.args[1].type = "bool" => Len(call.trace) = 1
    /\ C9_MuteBytes(prev.name, prev.args, prev.bytes)

C9_Witness ==
    /\ prev.name = "mute" /\ prev.args = <<[type |-> "bool", val |-> 1]>>
    /\ call.name = "mute" /\ call.args = <<[type |-> "bool", val |-> 1]>>
    /\ prev.bytes = <<249>>
    /\ Bytes(call.trace) = <<249>>

\* C10: master_volume with a volume outside 0..79 fails with ValueError
\* (invalid argument) and performs no bus access.
C10_MasterVolumeRange ==
    (call.name = "master_volume" /\ call.args[1] \notin 0..79)
    => call.outcome = "ValueError" /\ call.trace = <<>>

C10_Witness ==
    /\ call.name = "master_volume"
    /\ call.args[1] = 80
    /\ call.outcome = "ValueError"
    /\ call.trace = <<>>

\* C11: channel_volume with a channel outside 0..5 or a volume outside 0..79
\* fails with ValueError (invalid argument), whatever the other argument is,
\* performs no bus access and does not index the channel table; the table is
\* only ever indexed with a channel in 0..5.
C11_ChannelVolumeRange ==
    call.name = "channel_volume" =>
        /\ (call.args[1] \notin 0..5 \/ call.args[2] \notin 0..79) =>
              /\ call.outcome = "ValueError"
              /\ call.trace = <<>>
              /\ call.lookups = <<>>
        /\ \A i \in 1..Len(call.lookups) : call.lookups[i] \in 0..5

C11_Witness ==
    /\ call.name = "channel_volume"
    /\ call.args = <<0 - 1, 40>>
    /\ call.outcome = "ValueError"
    /\ call.lookups = <<>>

\* C12: mute with an argument that is not a bool, the integers 0 and 1
\* included, fails with ValueError (invalid argument) and performs no bus
\* access.
C12_MuteNotBool ==
    (call.name = "mute" /\ call.args[1].type # "bool")
    => call.outcome = "ValueError" /\ call.trace = <<>>

C12_Witness ==
    /\ call.name = "mute"
    /\ call.args = <<[type |-> "int", val |-> 1]>>
    /\ call.outcome = "ValueError"
    /\ call.trace = <<>>

\* The answer the bus gave to the i-th access of a trace.
TraceAnswer(trace, i) ==
    IF i <= Len(trace) THEN [kind |-> trace[i].kind, val |-> trace[i].val] ELSE NoAnswer

\* What the last call would have done on an instance just constructed with
\* the same address (last_ack = 0), the bus answering as it did.
C13_FreshResult ==
    LET addr7 == ctor.args[2] \div 2
        a1 == TraceAnswer(call.trace, 1)
        a2 == TraceAnswer(call.trace, 2)
    IN  CASE call.name = "master_volume" ->
                master_volume(addr7, 0, call.args[1], a1, a2)
          [] call.name = "channel_volume" ->
                channel_volume(addr7, 0, call.args[1], call.args[2], a1, a2)
          [] call.name = "mute" ->
                mute(addr7, 0, call.args[1], a1)

C13_AsFresh ==
    /\ call.name # "none" =>
          /\ state = "Ready"
          /\ call.outcome = C13_FreshResult.outcome
          /\ call.msg = C13_FreshResult.msg
          /\ call.ret = C13_FreshResult.ret
          /\ call.trace = C13_FreshResult.trace
    /\ (state = "Ready" /\ call = NoCall) =>
          ENABLED MasterVolume /\ ENABLED ChannelVolume /\ ENABLED Mute

\* C13: a Ready instance stays Ready through every call, however the call
\* ends; Faulted is entered only from Uninitialized; and every call does
\* what it would do on a freshly constructed instance.
C13_ReadyStaysReady ==
    /\ []C13_AsFresh
    /\ [][state = "Ready" => state' = "Ready"]_vars
    /\ [][state' = "Faulted" => state \in {"Uninitialized", "Faulted"}]_vars

C13_Witness ==
    /\ state = "Ready"
    /\ call.name = "channel_volume"
    /\ call.outcome = "RuntimeError"
    /\ Len(call.trace) = 2
    /\ last_ack # 0

\* C14: when master_volume, channel_volume or mute returns normally, the
\* value returned is the acknowledgment of the last write the call issued
\* (the coarse write's when the fine write was skipped) and is the value of
\* self.__last_ack at that moment.
C14_ReturnsLastAck ==
    (call.name # "none" /\ call.outcome = "return") =>
        /\ call.trace # <<>>
        /\ call.trace[Len(call.trace)].op = "writeto"
        /\ call.trace[Len(call.trace)].kind = "ack"
        /\ call.ret = call.trace[Len(call.trace)].val
        /\ last_ack = call.ret

C14_Witness ==
    /\ call.name = "master_volume"
    /\ call.outcome = "return"
    /\ Len(call.trace) = 2
    /\ call.trace[1].val # call.trace[2].val
    /\ call.ret = call.trace[2].val
    /\ last_ack = call.ret

\* C15: self.__last_ack is overwritten on every instruction write: when the
\* construction ends Ready, it is the acknowledgment of the clear-register
\* write; after a public call whose last write was answered with an
\* acknowledgment, it is that acknowledgment.
C15_OverwrittenOnEveryWrite ==
    /\ [][(state = "Uninitialized" /\ state' = "Ready")
            => last_ack' = ctor'.trace[3].val]_vars
    /\ []((call.trace # <<>> /\ call.trace[Len(call.trace)].kind = "ack")
            => last_ack = call.trace[Len(call.trace)].val)

\* C16: a public call performs at most two bus accesses (mute at most one),
\* each the write of one byte; a write answered with a failing
\* acknowledgment or a bus error is the last access of the call, and no
\* instruction byte is written twice in a call.
C16_AtMostTwoWritesNoRetry ==
    call.name # "none" =>
        /\ Len(call.trace) <= 2
        /\ call.name = "mute" => Len(call.trace) <= 1
        /\ \A i \in 1..Len(call.trace) :
              /\ call.trace[i].op = "writeto"
              /\ call.trace[i].arg \in 0..255
              /\ (call.trace[i].kind = "OSError" \/ FailedAck(call.trace[i]))
                    => i = Len(call.trace)
        /\ Len(call.trace) = 2 => call.trace[1].arg # call.trace[2].arg

C16_Witness ==
    /\ call.name = "channel_volume"
    /\ call.outcome = "RuntimeError"
    /\ Len(call.trace) = 1
    /\ call.trace[1].kind = "OSError"

\* Every bus error in the trace of rec made rec end with RuntimeError, of
\* the kind the errno selects, and was the last access of rec.
C17_Reported(rec) ==
    \A i \in 1..Len(rec.trace) :
        rec.trace[i].kind = "OSError" =>
            /\ rec.trace[i].op = "writeto"
            /\ rec.outcome = "RuntimeError"
            /\ rec.msg = IF rec.trace[i].val = 5 THEN "not acknowledged" ELSE "i/o error"
            /\ i = Len(rec.trace)

\* C17: when the bus raises an error during an instruction write, the public
\* call or the construction ends with RuntimeError (communication error), of
\* the not-acknowledged kind for EIO and of the generic kind otherwise; it
\* never returns normally and writes nothing after the error; a construction
\* that met a bus error is Faulted.
C17_BusErrorReported ==
    /\ C17_Reported(call)
    /\ C17_Reported(ctor)
    /\ ctor.outcome = "RuntimeError" => state = "Faulted"
    /\ call.outcome = "RuntimeError" =>
          call.trace # <<>> /\ call.trace[Len(call.trace)].kind = "OSError"

C17_Witness ==
    /\ call.name = "mute"
    /\ call.outcome = "RuntimeError"
    /\ call.msg = "not acknowledged"
    /\ call.trace[1].kind = "OSError"
    /\ call.trace[1].val = 5

\* The 7-bit form of each legal raw address, as the claim lists them.
C18_Addr7(raw) ==
    CASE raw = 140 -> 70
      [] raw = 136 -> 68
      [] raw = 132 -> 66
      [] raw = 128 -> 64

\* Every scan check and every write of the trace uses address a.
C18_Uses(trace, a) ==
    \A i \in 1..Len(trace) :
        trace[i].op \in {"scan", "writeto"} => trace[i].addr = a

C18_OneAddress ==
    ValidConstruction =>
        /\ PT2258_ADDR = C18_Addr7(ctor.args[2])
        /\ 2 * PT2258_ADDR = ctor.args[2]
        /\ C18_Uses(ctor.trace, PT2258_ADDR)
        /\ C18_Uses(call.trace, PT2258_ADDR)

\* C18: for the whole life of an instance the presence-scan check and every
\* bus write use one 7-bit address, the raw construction address shifted
\* right by one bit (0x8C, 0x88, 0x84, 0x80 give 0x46, 0x44, 0x42, 0x40),
\* and no step changes it once it is set.
C18_AddressFixed ==
    /\ []C18_OneAddress
    /\ [][PT2258_ADDR # NoAddr => PT2258_ADDR' = PT2258_ADDR]_vars

C18_Witness ==
    /\ ValidConstruction
    /\ ctor.args[2] = DEFAULT_ADDRESS
    /\ ctor.trace[2].addr = 68
    /\ call.name = "master_volume"
    /\ Len(call.trace) = 2
    /\ call.trace[1].addr = 68
    /\ call.trace[2].addr = 68

\* A call that ends with ValueError leaves the instance as it found it and
\* touches neither the bus nor the channel table.
C19_Frame ==
    (call = NoCall /\ call'.outcome = "ValueError") =>
        /\ last_ack' = last_ack
        /\ PT2258_ADDR' = PT2258_ADDR
        /\ I2C' = I2C
        /\ state' = state
        /\ call'.trace = <<>>
        /\ call'.lookups = <<>>

\* The call that follows a rejected call does what it would do on a freshly
\* constructed instance.
C19_NextCallUnaffected ==
    (prev.outcome = "ValueError" /\ call.name # "none") =>
        /\ call.outcome = C13_FreshResult.outcome
        /\ call.ret = C13_FreshResult.ret
        /\ call.trace = C13_FreshResult.trace

\* C19: a call rejected with ValueError (volume or channel out of range,
\* mute argument not a bool) has no side effect: self.__last_ack, the device
\* address and the bus handle are as before the call, nothing was read from
\* the channel table or written to the bus, and the next call behaves as if
\* the rejected call had not been made.
C19_RejectedCallNoEffect ==
    /\ [][C19_Frame]_vars
    /\ []C19_NextCallUnaffected

C19_Witness ==
    /\ prev.name = "master_volume"
    /\ prev.outcome = "return"
    /\ prev.ret # 0
    /\ call.name = "mute"
    /\ call.outcome = "ValueError"
    /\ last_ack = prev.ret

\* The payloads a valid volume gives.
C20_Coarse == {DivMod(79 - v, 10)[1] : v \in 0..79}
C20_Fine == {DivMod(79 - v, 10)[2] : v \in 0..79}

\* Every instruction the driver can write, as
\* <<register, channel, prefix, payload, byte>>; channel is -1 for the
\* registers that belong to no channel.
C20_Instructions ==
    {<<"clear", -1, CLEAR_REGISTER, 0, CLEAR_REGISTER>>}
    \cup {<<"master_10db", -1, MASTER_VOLUME_10DB, c, BitOr(MASTER_VOLUME_10DB, c)>> :
            c \in C20_Coarse}
    \cup {<<"master_1db", -1, MASTER_VOLUME_1DB, f, BitOr(MASTER_VOLUME_1DB, f)>> :
            f \in C20_Fine}
    \cup {<<"mute", -1, MUTE_REGISTER, b, BitOr(MUTE_REGISTER, b)>> : b \in {0, 1}}
    \cup UNION {{<<"channel_10db", ch, CHANNEL_REGISTERS[ch + 1][1], c,
                   BitOr(CHANNEL_REGISTERS[ch + 1][1], c)>> : c \in C20_Coarse} :
                ch \in 0..5}
    \cup UNION {{<<"channel_1db", ch, CHANNEL_REGISTERS[ch + 1][2], f,
                   BitOr(CHANNEL_REGISTERS[ch + 1][2], f)>> : f \in C20_Fine} :
                ch \in 0..5}

\* The encoding is one byte, keeps the prefix bits, and is injective.
C20_Injective ==
    /\ \A i \in C20_Instructions : i[5] \in 0..255 /\ i[5] = i[3] + i[4]
    /\ \A i, j \in C20_Instructions : i[5] = j[5] => i = j

\* The registers a call may write to, as <<register, channel>>.
C20_Targets(rec) ==
    CASE rec.name = "init" -> {<<"clear", -1>>}
      [] rec.name = "master_volume" -> {<<"master_10db", -1>>, <<"master_1db", -1>>}
      [] rec.name = "channel_volume" ->
            {<<"channel_10db", rec.args[1]>>, <<"channel_1db", rec.args[1]>>}
      [] rec.name = "mute" -> {<<"mute", -1>>}
      [] OTHER -> {}

\* Every byte rec wrote is the byte of an instruction for one of its targets.
C20_WritesInstructions(rec) ==
    \A k \in 1..Len(rec.trace) :
        rec.trace[k].op = "writeto" =>
            \E i \in C20_Instructions :
                /\ i[5] = rec.trace[k].arg
                /\ <<i[1], i[2]>> \in C20_Targets(rec)

\* C20: every byte the driver writes is in 0..255 and is prefix + payload
\* (OR-ing the payload never changes the prefix bits), and no two
\* instructions that differ in register or payload have the same byte.
C20_UniqueDecoding ==
    /\ C20_Injective
    /\ C20_WritesInstructions(ctor)
    /\ C20_WritesInstructions(call)

C20_Witness ==
    /\ call.name = "channel_volume"
    /\ call.args = <<5, 0>>
    /\ Bytes(call.trace) = <<167, 185>>

====
